---------------------------- MODULE Spec2Model ----------------------------
(***************************************************************************)
(* The Daily Digest curation engine (backend/app/services/curation.py):    *)
(* feed fetching, entry normalisation, category matching, deduplication,   *)
(* ranking and selection, followed by the persistence of a digest.         *)
(*                                                                         *)
(* Text is modelled by TLA+ strings, time by whole hours, and the quality  *)
(* score by IEEE-754 binary64 values computed with round-to-nearest-even,  *)
(* as CPython computes them.                                               *)
(***************************************************************************)
EXTENDS Integers, Sequences, FiniteSets, TLC

(***************************************************************************)
(* Text helpers (Python str methods used by the service).                  *)
(***************************************************************************)
Min(a, b) == IF a < b THEN a ELSE b
Max(a, b) == IF a > b THEN a ELSE b

CharAt(s, i) == SubSeq(s, i, i)

UpperToLower ==
    [c \in {"A","B","C","D","E","F","G","H","I","J","K","L","M",
            "N","O","P","Q","R","S","T","U","V","W","X","Y","Z"} |->
       CASE c = "A" -> "a" [] c = "B" -> "b" [] c = "C" -> "c" [] c = "D" -> "d"
         [] c = "E" -> "e" [] c = "F" -> "f" [] c = "G" -> "g" [] c = "H" -> "h"
         [] c = "I" -> "i" [] c = "J" -> "j" [] c = "K" -> "k" [] c = "L" -> "l"
         [] c = "M" -> "m" [] c = "N" -> "n" [] c = "O" -> "o" [] c = "P" -> "p"
         [] c = "Q" -> "q" [] c = "R" -> "r" [] c = "S" -> "s" [] c = "T" -> "t"
         [] c = "U" -> "u" [] c = "V" -> "v" [] c = "W" -> "w" [] c = "X" -> "x"
         [] c = "Y" -> "y" [] c = "Z" -> "z"]

LowerChar(c) == IF c \in DOMAIN UpperToLower THEN UpperToLower[c] ELSE c

\* The concatenation of the strings pieces[lo], ..., pieces[hi], by halves
\* (the evaluation depth stays logarithmic in the length).
RECURSIVE ConcatRange(_, _, _)
ConcatRange(pieces, lo, hi) ==
    IF lo > hi THEN ""
    ELSE IF lo = hi THEN pieces[lo]
    ELSE LET mid == (lo + hi) \div 2
         IN ConcatRange(pieces, lo, mid) \o ConcatRange(pieces, mid + 1, hi)
ConcatAll(pieces) == ConcatRange(pieces, 1, Len(pieces))

\* str.lower()
Lower(s) == ConcatAll([i \in 1..Len(s) |-> LowerChar(CharAt(s, i))])

\* kw in s
Contains(s, kw) ==
    \E i \in 1..(Len(s) - Len(kw) + 1) : SubSeq(s, i, i + Len(kw) - 1) = kw

\* s.endswith(suffix)
EndsWith(s, suffix) ==
    /\ Len(s) >= Len(suffix)
    /\ SubSeq(s, Len(s) - Len(suffix) + 1, Len(s)) = suffix

IsSpace(c) == c \in {" ", "\t", "\n"}

\* The sequence f with every element evaluated.
AsTuple(f) == <<>> \o f

SetMin(S) == CHOOSE i \in S : \A j \in S : i <= j
SetMax(S) == CHOOSE i \in S : \A j \in S : i >= j

\* s.lstrip(), s.rstrip(), s.strip()
Inked(s) == { i \in 1..Len(s) : ~IsSpace(CharAt(s, i)) }
LStrip(s) == IF Inked(s) = {} THEN "" ELSE SubSeq(s, SetMin(Inked(s)), Len(s))
RStrip(s) == IF Inked(s) = {} THEN "" ELSE SubSeq(s, 1, SetMax(Inked(s)))
Strip(s) == RStrip(LStrip(s))

\* ' '.join(s.split()): runs of whitespace collapse to one blank and
\* leading and trailing whitespace goes.
CollapseWhitespace(s) ==
    LET t == Strip(s)
    IN ConcatAll([i \in 1..Len(t) |->
                    IF ~IsSpace(CharAt(t, i)) THEN CharAt(t, i)
                    ELSE IF IsSpace(CharAt(t, i - 1)) THEN "" ELSE " "])

\* A string of n copies of the character c.
Rep(c, n) == ConcatAll([i \in 1..n |-> c])

(***************************************************************************)
(* Python floats: IEEE-754 binary64, round to nearest, ties to even.  A    *)
(* non-negative float is [m, e] with value m * 2^e, where m is zero (the   *)
(* empty number) or has exactly 53 bits.  m is a natural number written    *)
(* little-endian in limbs of LimbBits bits, so that every intermediate     *)
(* product stays below 2^31.  Values here lie in [0, 2], far from the      *)
(* subnormal and overflow ranges.                                          *)
(***************************************************************************)
LimbBits == 13
LimbBase == 8192
MantBits == 53

RECURSIVE Pow2(_)
Pow2(n) == IF n <= 0 THEN 1 ELSE 2 * Pow2(n - 1)

Limb(a, i) == IF i >= 1 /\ i <= Len(a) THEN a[i] ELSE 0

RECURSIVE Carry(_, _)
Carry(raw, c) ==
    IF raw = <<>>
    THEN IF c = 0 THEN <<>> ELSE <<c % LimbBase>> \o Carry(<<>>, c \div LimbBase)
    ELSE LET t == Head(raw) + c
         IN <<t % LimbBase>> \o Carry(Tail(raw), t \div LimbBase)

RECURSIVE Trim(_)
Trim(a) == IF a # <<>> /\ a[Len(a)] = 0 THEN Trim(SubSeq(a, 1, Len(a) - 1)) ELSE a

BigAdd(a, b) == Carry([i \in 1..Max(Len(a), Len(b)) |-> Limb(a, i) + Limb(b, i)], 0)

RECURSIVE ConvSum(_, _, _, _)
ConvSum(a, b, k, i) ==
    IF i > Len(a) THEN 0 ELSE a[i] * Limb(b, k + 1 - i) + ConvSum(a, b, k, i + 1)

BigMul(a, b) ==
    IF a = <<>> \/ b = <<>> THEN <<>>
    ELSE Carry([k \in 1..(Len(a) + Len(b) - 1) |-> ConvSum(a, b, k, 1)], 0)

RECURSIVE BitLenSmall(_)
BitLenSmall(n) == IF n = 0 THEN 0 ELSE 1 + BitLenSmall(n \div 2)

BitLen(a) ==
    LET t == Trim(a)
    IN IF t = <<>> THEN 0 ELSE LimbBits * (Len(t) - 1) + BitLenSmall(t[Len(t)])

ShiftLeft(a, s) ==
    Carry([i \in 1..(s \div LimbBits) |-> 0]
          \o [i \in 1..Len(a) |-> a[i] * Pow2(s % LimbBits)], 0)

\* a \div 2^s, and whether any one-bit was shifted out.
ShiftRightSticky(a, s) ==
    LET w    == s \div LimbBits
        r    == s % LimbBits
        rest == SubSeq(a, w + 1, Len(a))
    IN [q |-> [i \in 1..Len(rest) |->
                  (rest[i] \div Pow2(r))
                  + (Limb(rest, i + 1) % Pow2(r)) * Pow2(LimbBits - r)],
        sticky |-> \/ \E i \in 1..Min(w, Len(a)) : a[i] # 0
                   \/ Limb(rest, 1) % Pow2(r) # 0]

RECURSIVE BigLessFrom(_, _, _)
BigLessFrom(a, b, i) ==
    IF i = 0 THEN FALSE
    ELSE IF Limb(a, i) # Limb(b, i) THEN Limb(a, i) < Limb(b, i)
    ELSE BigLessFrom(a, b, i - 1)
BigLess(a, b) == BigLessFrom(a, b, Max(Len(a), Len(b)))

\* Long division of a by the small number d, top limb first:
\* <<quotient, remainder>>.
RECURSIVE DivSmallFrom(_, _, _, _)
DivSmallFrom(a, d, i, r) ==
    IF i = 0 THEN <<<<>>, r>>
    ELSE LET cur  == r * LimbBase + a[i]
             rec  == DivSmallFrom(a, d, i - 1, cur % d)
         IN <<Append(rec[1], cur \div d), rec[2]>>
DivSmall(a, d) == DivSmallFrom(a, d, Len(a), 0)

FZero == [m |-> <<>>, e |-> 0]

\* The rounded mantissa v at exponent e: one more shift when rounding up
\* carried into a 54th bit.
RoundCarry(v, e) ==
    IF BitLen(v) > MantBits
    THEN [m |-> Trim(ShiftRightSticky(v, 1).q), e |-> e + 1]
    ELSE [m |-> Trim(v), e |-> e]

\* Round to nearest, ties to even: t holds the 54 leading bits and the
\* sticky bit, u the 53 leading bits.
RoundHalfEven(t, u, e) ==
    RoundCarry(IF Limb(t.q, 1) % 2 = 1 /\ (t.sticky \/ Limb(u, 1) % 2 = 1)
               THEN BigAdd(u, <<1>>) ELSE u,
               e)

RoundSticky(t, e) == RoundHalfEven(t, ShiftRightSticky(t.q, 1).q, e)

\* The float nearest to m * 2^e, for m of L bits.
RoundBits(m, e, L) ==
    IF L = 0 THEN FZero
    ELSE IF L <= MantBits
    THEN [m |-> Trim(ShiftLeft(m, MantBits - L)), e |-> e - (MantBits - L)]
    ELSE RoundSticky(ShiftRightSticky(m, L - MantBits - 1), e + (L - MantBits))

\* The float nearest to m * 2^e.
RoundToDouble(m, e) == RoundBits(m, e, BitLen(m))

\* x + y
FAdd(x, y) ==
    IF x.m = <<>> THEN y
    ELSE IF y.m = <<>> THEN x
    ELSE LET emin == Min(x.e, y.e)
         IN RoundToDouble(BigAdd(ShiftLeft(x.m, x.e - emin),
                                 ShiftLeft(y.m, y.e - emin)), emin)

\* x * y
FMul(x, y) == RoundToDouble(BigMul(x.m, y.m), x.e + y.e)

\* x < y
FLess(x, y) ==
    IF y.m = <<>> THEN FALSE
    ELSE IF x.m = <<>> THEN TRUE
    ELSE x.e < y.e \/ (x.e = y.e /\ BigLess(x.m, y.m))

\* min(x, y)
FMin(x, y) == IF FLess(y, x) THEN y ELSE x

\* The float a decimal literal n/d denotes (d a power of ten).
FLiteral(n, d) ==
    LET qr == DivSmall(ShiftLeft(<<n>>, 5 * LimbBits), d)
    IN RoundToDouble(BigAdd(ShiftLeft(qr[1], 1), IF qr[2] # 0 THEN <<1>> ELSE <<>>),
                     0 - (5 * LimbBits + 1))

\* The literals 0.1, 0.2, 0.3, 0.7 and 1.0.
Float0_1 == FLiteral(1, 10)
Float0_2 == FLiteral(2, 10)
Float0_3 == FLiteral(3, 10)
Float0_7 == FLiteral(7, 10)
Float1_0 == FLiteral(1, 1)

(***************************************************************************)
(* difflib.SequenceMatcher(None, a, b): the matching blocks of two strings *)
(* shorter than 200 characters (no junk, no popular-element heuristic).    *)
(***************************************************************************)
\* Number of equal characters of a and b from positions i and j on, inside
\* the windows a[..ahi] and b[..bhi] (1-based, inclusive).
RECURSIVE RunLen(_, _, _, _, _, _)
RunLen(a, i, ahi, b, j, bhi) ==
    IF i > ahi \/ j > bhi \/ CharAt(a, i) # CharAt(b, j) THEN 0
    ELSE 1 + RunLen(a, i + 1, ahi, b, j + 1, bhi)

\* find_longest_match: the longest block, of those the one starting
\* earliest in a, of those the one starting earliest in b.
find_longest_match(a, alo, ahi, b, blo, bhi) ==
    LET blocks == { <<RunLen(a, p[1], ahi, b, p[2], bhi), p[1], p[2]>> :
                      p \in { q \in (alo..ahi) \X (blo..bhi) :
                                CharAt(a, q[1]) = CharAt(b, q[2]) } }
        longest == SetMax({ t[1] : t \in blocks })
        winners == { t \in blocks : t[1] = longest }
        best == CHOOSE t \in winners :
                   \A u \in winners : t[2] < u[2] \/ (t[2] = u[2] /\ t[3] <= u[3])
    IN IF blocks = {} THEN <<alo, blo, 0>> ELSE <<best[2], best[3], best[1]>>

\* get_matching_blocks, summed: the number of matched characters.
RECURSIVE MatchedIn(_, _, _, _, _, _)
MatchedIn(a, alo, ahi, b, blo, bhi) ==
    IF alo > ahi \/ blo > bhi THEN 0
    ELSE LET m == find_longest_match(a, alo, ahi, b, blo, bhi)
             i == m[1]
             j == m[2]
             k == m[3]
         IN IF k = 0 THEN 0
            ELSE k + MatchedIn(a, alo, i - 1, b, blo, j - 1)
                   + MatchedIn(a, i + k, ahi, b, j + k, bhi)

\* ratio() = 2.0 * matches / (len(a) + len(b)), and 1.0 for two empty
\* strings, as the pair <<numerator, denominator>>.
SequenceMatcherRatio(a, b) ==
    IF Len(a) + Len(b) = 0 THEN <<1, 1>>
    ELSE <<2 * MatchedIn(a, 1, Len(a), b, 1, Len(b)), Len(a) + Len(b)>>

(***************************************************************************)
(* Configuration (news_sources.py and CurationService.__init__).           *)
(***************************************************************************)
articles_per_category == 15
max_age_hours == 48
min_description_length == 50
\* similarity_threshold = 0.7, as the fraction <<7, 10>>
similarity_threshold == <<7, 10>>
\* feed.entries[:30]
EntriesPerFeed == 30
\* 3600 * 6 seconds, in hours
RecencyHours == 6

\* NEWS_SOURCES, flattened in iteration order: one feed per (source,
\* sub-category) pair.
NEWS_SOURCES ==
    << [source |-> "BBC News",            category |-> "international"],
       [source |-> "BBC News",            category |-> "technology"],
       [source |-> "BBC News",            category |-> "europe"],
       [source |-> "Reuters",             category |-> "international"],
       [source |-> "Reuters",             category |-> "technology"],
       [source |-> "Reuters",             category |-> "business"],
       [source |-> "Associated Press",    category |-> "international"],
       [source |-> "Associated Press",    category |-> "technology"],
       [source |-> "Associated Press",    category |-> "sports"],
       [source |-> "Associated Press",    category |-> "soccer"],
       [source |-> "France 24",           category |-> "international"],
       [source |-> "France 24",           category |-> "europe"],
       [source |-> "France 24",           category |-> "technology"],
       [source |-> "DW (Deutsche Welle)", category |-> "international"],
       [source |-> "DW (Deutsche Welle)", category |-> "europe"],
       [source |-> "DW (Deutsche Welle)", category |-> "germany"],
       [source |-> "elDiario.es",         category |-> "spain"],
       [source |-> "elDiario.es",         category |-> "international"],
       [source |-> "elDiario.es",         category |-> "technology"],
       [source |-> "Ars Technica",        category |-> "apple"],
       [source |-> "Ars Technica",        category |-> "ai"],
       [source |-> "Ars Technica",        category |-> "tech-policy"],
       [source |-> "9to5Mac",             category |-> "apple"] >>

\* CATEGORY_MAPPINGS, in iteration order.
CATEGORY_MAPPINGS ==
    << [name |-> "International News",      search |-> {"international"}],
       [name |-> "Portugal",                search |-> {"portugal", "europe"}],
       [name |-> "Spain",                   search |-> {"spain", "europe"}],
       [name |-> "Germany",                 search |-> {"germany", "europe"}],
       [name |-> "Japan",                   search |-> {"japan", "international"}],
       [name |-> "Technology",              search |-> {"technology", "tech", "tech-policy"}],
       [name |-> "Apple & Productivity AI", search |-> {"apple", "ai"}],
       [name |-> "Soccer",                  search |-> {"soccer", "football"}],
       [name |-> "US Sports",               search |-> {"sports"}],
       [name |-> "Expat/Immigration",       search |-> {"europe", "international"}] >>

Categories == { CATEGORY_MAPPINGS[i].name : i \in DOMAIN CATEGORY_MAPPINGS }

(***************************************************************************)
(* Raw feed entries (feedparser's FeedParserDict).  keys is the set of     *)
(* attributes the entry has; a field outside keys holds a filler.  A time  *)
(* is a whole number of hours; BadTime is a parsed time tuple that the     *)
(* datetime constructor rejects with ValueError.                           *)
(***************************************************************************)
BadTime == 0 - 1

HasAttr(entry, k) == k \in entry.keys
\* entry.get(k, default)
Get(entry, k, default) == IF k \in entry.keys THEN entry[k] ELSE default
\* hasattr(entry, k) and entry.k, for a text and for a list attribute
Truthy(entry, k) == k \in entry.keys /\ entry[k] # ""
TruthyList(entry, k) == k \in entry.keys /\ entry[k] # <<>>

BlankEntry ==
    [keys |-> {}, id |-> "", title |-> "", link |-> "", summary |-> "",
     content |-> "", description |-> "", author |-> "",
     author_detail_name |-> "", dc_creator |-> "",
     media_content |-> <<>>, media_thumbnail |-> <<>>, enclosures |-> <<>>,
     links |-> <<>>, published_parsed |-> 0, updated_parsed |-> 0]

(***************************************************************************)
(* Entry normalisation.                                                    *)
(***************************************************************************)
\* BeautifulSoup(text).get_text() on markup without script or style
\* elements and without character references: the tags go.
StripTags(s) ==
    LET closes(i) == { j \in 1..(i - 1) : CharAt(s, j) = ">" }
        lastClose(i) == IF closes(i) = {} THEN 0 ELSE SetMax(closes(i))
        inTag(i) == \E j \in (lastClose(i) + 1)..(i - 1) : CharAt(s, j) = "<"
    IN ConcatAll([i \in 1..Len(s) |->
                    IF inTag(i) \/ CharAt(s, i) = "<" THEN "" ELSE CharAt(s, i)])

\* out and piece joined by one blank; an empty piece adds nothing.
JoinWith(out, piece) ==
    IF piece = "" THEN out ELSE IF out = "" THEN piece ELSE out \o " " \o piece

\* The chunks of one line: line.split("  "), each stripped, the empty
\* ones dropped, joined by one blank.
RECURSIVE JoinChunks(_, _)
JoinChunks(line, out) ==
    LET gaps == { i \in 1..(Len(line) - 1) : SubSeq(line, i, i + 1) = "  " }
    IN IF gaps = {} THEN JoinWith(out, Strip(line))
       ELSE JoinChunks(SubSeq(line, SetMin(gaps) + 2, Len(line)),
                       JoinWith(out, Strip(SubSeq(line, 1, SetMin(gaps) - 1))))

\* The lines of text.splitlines(), each stripped and chunked.
RECURSIVE JoinLines(_, _)
JoinLines(text, out) ==
    LET breaks == { i \in 1..Len(text) : CharAt(text, i) = "\n" }
    IN IF breaks = {} THEN JoinWith(out, JoinChunks(Strip(text), ""))
       ELSE JoinLines(SubSeq(text, SetMin(breaks) + 1, Len(text)),
                      JoinWith(out, JoinChunks(Strip(SubSeq(text, 1, SetMin(breaks) - 1)), "")))

clean_html(text) ==
    IF text = "" THEN "" ELSE JoinLines(StripTags(text), "")

\* description[:497] + "..." beyond 500 characters
Shorten(description) ==
    IF Len(description) > 500
    THEN SubSeq(description, 1, 497) \o "..."
    ELSE description

extract_best_description(entry) ==
    Shorten(clean_html(IF Truthy(entry, "summary") THEN entry.summary
                       ELSE IF Truthy(entry, "content") THEN entry.content
                       ELSE IF Truthy(entry, "description") THEN entry.description
                       ELSE ""))

extract_author(entry) ==
    IF Truthy(entry, "author") THEN entry.author
    ELSE IF HasAttr(entry, "author_detail_name") THEN entry.author_detail_name
    ELSE IF HasAttr(entry, "dc_creator") THEN entry.dc_creator
    ELSE ""

\* The first element of seq that satisfies Test, as a one-element
\* sequence, or the empty sequence.
FirstWhere(seq, Test(_)) ==
    LET hits == { i \in DOMAIN seq : Test(seq[i]) }
    IN IF hits = {} THEN <<>>
       ELSE << seq[CHOOSE i \in hits : \A j \in hits : i <= j] >>

extract_image(entry) ==
    LET IsImage(m) == Contains(Lower(m.type), "image")
        IsImageLink(l) == l.rel = "enclosure" /\ Contains(Lower(l.type), "image")
        media == IF TruthyList(entry, "media_content")
                 THEN FirstWhere(entry.media_content, IsImage) ELSE <<>>
        encl  == IF TruthyList(entry, "enclosures")
                 THEN FirstWhere(entry.enclosures, IsImage) ELSE <<>>
        link  == IF HasAttr(entry, "links")
                 THEN FirstWhere(entry.links, IsImageLink) ELSE <<>>
    IN IF media # <<>> THEN media[1].url
       ELSE IF TruthyList(entry, "media_thumbnail") THEN entry.media_thumbnail[1].url
       ELSE IF encl # <<>> THEN encl[1].href
       ELSE IF link # <<>> THEN link[1].href
       ELSE ""

\* score += amount, when the signal is there
AddIf(score, signal, amount) == IF signal THEN FAdd(score, amount) ELSE score

calculate_quality_score(entry, description) ==
    FMin(AddIf(AddIf(AddIf(AddIf(AddIf(AddIf(FZero,
            Len(description) > min_description_length, Float0_3),
            Len(description) > 150, Float0_2),
            extract_author(entry) # "", Float0_2),
            extract_image(entry) # "", Float0_1),
            HasAttr(entry, "published_parsed"), Float0_1),
            Len(Get(entry, "title", "")) > 20 /\ Len(Get(entry, "title", "")) < 200,
            Float0_1),
         Float1_0)

IsUpper(c) == c \in DOMAIN UpperToLower
IsLower(c) == c \in { UpperToLower[u] : u \in DOMAIN UpperToLower }
IsDigit(c) == c \in {"0","1","2","3","4","5","6","7","8","9"}

\* Does s match  \s*[A-Z][a-z]+\s*\d{4}$  from its first character?
MatchesMonthYear(s) ==
    LET t == LStrip(s)
        n == Len(t)
    IN /\ n >= 6
       /\ IsUpper(CharAt(t, 1))
       /\ \A i \in (n - 3)..n : IsDigit(CharAt(t, i))
       /\ \E k \in 2..(n - 4) :
             /\ \A i \in 2..k : IsLower(CharAt(t, i))
             /\ \A i \in (k + 1)..(n - 4) : IsSpace(CharAt(t, i))

\* s up to the first of the positions hits, trailing white space removed;
\* s itself when there is none.
CutAtFirst(s, hits) ==
    IF hits = {} THEN s ELSE RStrip(SubSeq(s, 1, SetMin(hits) - 1))

\* re.sub(r'\s*\|\s*.*$', '', title)
CutAtBar(t) == CutAtFirst(t, { i \in 1..Len(t) : CharAt(t, i) = "|" })

\* re.sub(r'\s*-\s*[A-Z][a-z]+\s*\d{4}$', '', title)
CutAtMonthYear(t) ==
    CutAtFirst(t, { i \in 1..Len(t) :
                      CharAt(t, i) = "-" /\ MatchesMonthYear(SubSeq(t, i + 1, Len(t))) })

clean_title(title) == Strip(CutAtMonthYear(CutAtBar(CollapseWhitespace(title))))

PaywallIndicators ==
    {"subscriber", "subscription", "paywall", "premium", "exclusive",
     "members only", "sign up to read", "limited access", "register to continue"}

\* The title searched as it is written.
is_likely_paywalled_cased(entry) ==
    LET title   == Get(entry, "title", "")
        summary == Lower(Get(entry, "summary", ""))
    IN \/ \E indicator \in PaywallIndicators :
             Contains(title, indicator) \/ Contains(summary, indicator)
       \/ summary # "" /\ Len(summary) < 100 /\ EndsWith(summary, "...")

is_likely_paywalled(entry) ==
    LET title   == Lower(Get(entry, "title", ""))
        summary == Lower(Get(entry, "summary", ""))
    IN \/ \E indicator \in PaywallIndicators :
             Contains(title, indicator) \/ Contains(summary, indicator)
       \/ summary # "" /\ Len(summary) < 100 /\ EndsWith(summary, "...")


(***************************************************************************)
(* Feed fetcher.  A response is what feedparser.parse yields for one feed: *)
(* ok = FALSE when the call itself raises, else the parsed entries.        *)
(***************************************************************************)
FailedFeed == [ok |-> FALSE, entries |-> <<>>]
EmptyFeed  == [ok |-> TRUE,  entries |-> <<>>]

\* The window subtracted a second time.
IsStaleTwice(published_date, cutoff_time) ==
    published_date < cutoff_time - max_age_hours

\* published_date < cutoff_time
IsStale(published_date, cutoff_time) == published_date < cutoff_time

\* The article dict built of an entry.
ArticleOf(entry, source, category, published_date, description) ==
    [title          |-> clean_title(Get(entry, "title", "")),
     url            |-> Get(entry, "link", ""),
     source         |-> source,
     category       |-> category,
     description    |-> description,
     published_date |-> published_date,
     author         |-> extract_author(entry),
     guid           |-> Get(entry, "id", Get(entry, "link", "")),
     quality_score  |-> calculate_quality_score(entry, description),
     image_url      |-> extract_image(entry)]

\* if article['quality_score'] > 0.3: articles.append(article)
GateQuality(article) ==
    IF FLess(Float0_3, article.quality_score)
    THEN [raised |-> FALSE, add |-> <<article>>]
    ELSE [raised |-> FALSE, add |-> <<>>]

\* The loop body from the parsed time on.
ProcessDated(entry, source, category, cutoff_time, published_date) ==
    IF published_date = BadTime THEN [raised |-> TRUE, add |-> <<>>]
    ELSE IF IsStale(published_date, cutoff_time) THEN [raised |-> FALSE, add |-> <<>>]
    ELSE IF is_likely_paywalled(entry) THEN [raised |-> FALSE, add |-> <<>>]
    ELSE GateQuality(ArticleOf(entry, source, category, published_date,
                               extract_best_description(entry)))

\* One pass of the loop body of fetch_rss_feed: raised when the entry makes
\* the body raise, else the article to append, if any.
ProcessEntry(entry, source, category, now, cutoff_time) ==
    ProcessDated(entry, source, category, cutoff_time,
                 IF HasAttr(entry, "published_parsed") THEN entry.published_parsed
                 ELSE IF HasAttr(entry, "updated_parsed") THEN entry.updated_parsed
                 ELSE now)

\* The loop over feed.entries[:30]; an exception leaves the loop and keeps
\* the articles appended so far.
RECURSIVE ProcessEntries(_, _, _, _, _, _)
ProcessStep(r, entries, source, category, now, cutoff_time, articles) ==
    IF r.raised THEN [articles |-> articles, raised |-> TRUE]
    ELSE ProcessEntries(Tail(entries), source, category, now, cutoff_time,
                        articles \o r.add)

ProcessEntries(entries, source, category, now, cutoff_time, articles) ==
    IF entries = <<>> THEN [articles |-> articles, raised |-> FALSE]
    ELSE ProcessStep(ProcessEntry(Head(entries), source, category, now, cutoff_time),
                     entries, source, category, now, cutoff_time, articles)

\* fetch_rss_feed: the returned articles, and whether the except clause ran.
fetch_rss_feed(response, source, category, now) ==
    IF ~response.ok THEN [articles |-> <<>>, raised |-> TRUE]
    ELSE ProcessEntries(SubSeq(response.entries, 1,
                               Min(EntriesPerFeed, Len(response.entries))),
                        source, category, now, now - max_age_hours, <<>>)

(***************************************************************************)
(* Category matcher.                                                       *)
(***************************************************************************)
AnyIn(keywords, text) == \E kw \in keywords : Contains(text, kw)

\* The Spain list also holds the keyword written 'espa' + U+00C3 U+00B1 +
\* 'a' in the source; it contains an upper-case letter and so never occurs
\* in the lower-cased text it is searched in.
matches_category_filter(article, category) ==
    LET title_lower == Lower(article.title)
        desc_lower  == Lower(article.description)
        combined    == title_lower \o " " \o desc_lower
    IN CASE category = "Portugal" ->
              AnyIn({"portugal", "portuguese", "lisbon", "porto", "madeira", "azores"},
                    combined)
         [] category = "Spain" ->
              AnyIn({"spain", "spanish", "madrid", "barcelona", "valencia", "seville"},
                    combined)
         [] category = "Germany" ->
              AnyIn({"germany", "german", "berlin", "munich", "frankfurt", "hamburg",
                     "deutsch"}, combined)
         [] category = "Japan" ->
              AnyIn({"japan", "japanese", "tokyo", "osaka", "kyoto", "nippon"}, combined)
         [] category = "US to Europe Expat" ->
              AnyIn({"expat", "expatriate", "immigration", "visa", "residency",
                     "moving to", "relocat", "american in", "us citizen", "tax",
                     "remote work"}, combined)
         [] category = "Apple & Productivity AI" ->
              AnyIn({"apple", "mac", "iphone", "ipad", "ios", "macos", "app store",
                     "productivity", "notion", "ai tool", "chatgpt", "claude",
                     "copilot", "automation", "workflow", "artificial intelligence"},
                    combined)
         [] category = "Soccer" ->
              AnyIn({"soccer", "football", "premier league", "la liga", "bundesliga",
                     "champions league", "world cup", "uefa", "fifa"}, combined)
         [] category = "US Football" ->
              /\ AnyIn({"nfl", "football", "touchdown", "quarterback", "super bowl",
                        "draft", "yards", "patriots", "cowboys", "chiefs", "bills"},
                       combined)
              /\ ~AnyIn({"soccer", "premier", "uefa", "fifa"}, combined)
         [] category = "US Basketball" ->
              AnyIn({"nba", "basketball", "lakers", "celtics", "warriors", "lebron",
                     "three-pointer", "dunk", "playoffs", "finals"}, combined)
         [] category = "US Baseball" ->
              AnyIn({"mlb", "baseball", "yankees", "dodgers", "world series",
                     "home run", "pitcher", "batting", "innings"}, combined)
         [] OTHER -> TRUE

(***************************************************************************)
(* Deduplicator.                                                           *)
(***************************************************************************)
\* The comparison with numerator and denominator of the threshold swapped.
ExceedsThresholdSwapped(ratio) ==
    ratio[1] * similarity_threshold[1] > similarity_threshold[2] * ratio[2]

\* similarity > self.similarity_threshold, for a ratio n/d of two titles:
\* the correctly rounded quotient exceeds the float 0.7 exactly when
\* n/d exceeds 7/10.
ExceedsThreshold(ratio) ==
    ratio[1] * similarity_threshold[2] > similarity_threshold[1] * ratio[2]

\* The loop without the test of seen_urls.
RECURSIVE DedupLoopTitlesOnly(_, _, _, _, _)
DedupLoopTitlesOnly(articles, i, kept, seen_titles, seen_urls) ==
    IF i > Len(articles) THEN kept
    ELSE LET article == articles[i]
             article_title_lower == Lower(article.title)
             is_duplicate ==
                 \E seen_title \in seen_titles :
                    ExceedsThreshold(SequenceMatcherRatio(article_title_lower, seen_title))
         IN IF is_duplicate
            THEN DedupLoopTitlesOnly(articles, i + 1, kept, seen_titles, seen_urls)
            ELSE DedupLoopTitlesOnly(articles, i + 1, Append(kept, i),
                                     seen_titles \cup {article_title_lower},
                                     seen_urls \cup {article.url})

\* The loop with unique built by insertion at the front.
RECURSIVE DedupLoopPrepending(_, _, _, _, _)
DedupLoopPrepending(articles, i, kept, seen_titles, seen_urls) ==
    IF i > Len(articles) THEN kept
    ELSE LET article == articles[i]
             article_title_lower == Lower(article.title)
             is_duplicate ==
                 \E seen_title \in seen_titles :
                    ExceedsThreshold(SequenceMatcherRatio(article_title_lower, seen_title))
         IN IF article.url \in seen_urls \/ is_duplicate
            THEN DedupLoopPrepending(articles, i + 1, kept, seen_titles, seen_urls)
            ELSE DedupLoopPrepending(articles, i + 1, <<i>> \o kept,
                                     seen_titles \cup {article_title_lower},
                                     seen_urls \cup {article.url})

\* The loop of remove_duplicates from position i on: the positions of the
\* articles appended to unique, in order.
RECURSIVE DedupLoop(_, _, _, _, _)
DedupLoop(articles, i, kept, seen_titles, seen_urls) ==
    IF i > Len(articles) THEN kept
    ELSE LET article == articles[i]
             article_title_lower == Lower(article.title)
             is_duplicate ==
                 \E seen_title \in seen_titles :
                    ExceedsThreshold(SequenceMatcherRatio(article_title_lower, seen_title))
         IN IF article.url \in seen_urls
            THEN DedupLoop(articles, i + 1, kept, seen_titles, seen_urls)
            ELSE IF is_duplicate
            THEN DedupLoop(articles, i + 1, kept, seen_titles, seen_urls)
            ELSE DedupLoop(articles, i + 1, Append(kept, i),
                           seen_titles \cup {article_title_lower},
                           seen_urls \cup {article.url})

\* The loop with seen_urls emptied whenever a near-duplicate title is met.
RECURSIVE DedupLoopForgetful(_, _, _, _, _)
DedupLoopForgetful(articles, i, kept, seen_titles, seen_urls) ==
    IF i > Len(articles) THEN kept
    ELSE LET article == articles[i]
             article_title_lower == Lower(article.title)
             is_duplicate ==
                 \E seen_title \in seen_titles :
                    ExceedsThreshold(SequenceMatcherRatio(article_title_lower, seen_title))
         IN IF article.url \in seen_urls
            THEN DedupLoopForgetful(articles, i + 1, kept, seen_titles, seen_urls)
            ELSE IF is_duplicate
            THEN DedupLoopForgetful(articles, i + 1, kept, seen_titles, {})
            ELSE DedupLoopForgetful(articles, i + 1, Append(kept, i),
                                    seen_titles \cup {article_title_lower},
                                    seen_urls \cup {article.url})

KeptPositionsForgetful(articles) == DedupLoopForgetful(articles, 1, <<>>, {}, {})

\* The positions in articles of the articles remove_duplicates returns.
KeptPositions(articles) == DedupLoop(articles, 1, <<>>, {}, {})

remove_duplicates(articles) ==
    IF articles = <<>> THEN <<>>
    ELSE LET kept == KeptPositions(articles)
         IN AsTuple([k \in 1..Len(kept) |-> articles[kept[k]]])

(***************************************************************************)
(* Ranker / selector.                                                      *)
(***************************************************************************)
\* The sort key of curate_articles.
SortKey(x, now) ==
    FAdd(FMul(x.quality_score, Float0_7),
         FMul(IF now - x.published_date < RecencyHours THEN Float1_0 ELSE Float0_3,
              Float0_3))

\* list.sort(key = ..., reverse = True): descending by key, elements of
\* equal key in their original order.  order is the sorted sequence of
\* the indices of keys.
\* An insertion that goes before the elements of equal key.
RECURSIVE InsertDescUnstable(_, _, _)
InsertDescUnstable(order, keys, i) ==
    IF order = <<>> THEN <<i>>
    ELSE IF ~FLess(keys[i], keys[Head(order)]) THEN <<i>> \o order
    ELSE <<Head(order)>> \o InsertDescUnstable(Tail(order), keys, i)

RECURSIVE InsertDesc(_, _, _)
InsertDesc(order, keys, i) ==
    IF order = <<>> THEN <<i>>
    ELSE IF FLess(keys[Head(order)], keys[i]) THEN <<i>> \o order
    ELSE <<Head(order)>> \o InsertDesc(Tail(order), keys, i)

RECURSIVE SortedOrder(_, _)
SortedOrder(keys, n) ==
    IF n = 0 THEN <<>> ELSE InsertDesc(SortedOrder(keys, n - 1), keys, n)

SortDescending(list, now) ==
    LET keys  == AsTuple([i \in DOMAIN list |-> SortKey(list[i], now)])
        order == SortedOrder(keys, Len(list))
    IN AsTuple([i \in DOMAIN list |-> list[order[i]]])

(***************************************************************************)
(* curate_articles, with the intermediate lists of every category.         *)
(***************************************************************************)
\* The loop without the call of matches_category_filter.
RECURSIVE MatchLoopLabelOnly(_, _, _)
MatchLoopLabelOnly(articles, rule, category_articles) ==
    IF articles = <<>> THEN category_articles
    ELSE LET article == Head(articles)
         IN IF article.category \in rule.search
            THEN MatchLoopLabelOnly(Tail(articles), rule,
                                    Append(category_articles, article))
            ELSE MatchLoopLabelOnly(Tail(articles), rule, category_articles)

RECURSIVE MatchLoop(_, _, _)
MatchLoop(articles, rule, category_articles) ==
    IF articles = <<>> THEN category_articles
    ELSE LET article == Head(articles)
         IN IF /\ article.category \in rule.search
               /\ matches_category_filter(article, rule.name)
            THEN MatchLoop(Tail(articles), rule, Append(category_articles, article))
            ELSE MatchLoop(Tail(articles), rule, category_articles)

\* The slice forgotten: the whole sorted list is returned.
TakeTopAll(sorted) == sorted

\* unique_articles[:self.articles_per_category]
TakeTop(sorted) == SubSeq(sorted, 1, Min(articles_per_category, Len(sorted)))

CurateCategory(articles, rule, now) ==
    LET category_articles == MatchLoop(articles, rule, <<>>)
        unique_articles   == remove_duplicates(category_articles)
        sorted            == SortDescending(unique_articles, now)
    IN [name              |-> rule.name,
        category_articles |-> category_articles,
        unique_articles   |-> unique_articles,
        selected          |-> TakeTop(sorted)]

\* A loop that assigns curated[category_name] only when the category has
\* a matching article.
RECURSIVE CurateLoopSkipEmpty(_, _, _)
CurateLoopSkipEmpty(articles, i, now) ==
    IF i > Len(CATEGORY_MAPPINGS) THEN <<>>
    ELSE (IF MatchLoop(articles, CATEGORY_MAPPINGS[i], <<>>) = <<>> THEN <<>>
          ELSE <<CurateCategory(articles, CATEGORY_MAPPINGS[i], now)>>)
         \o CurateLoopSkipEmpty(articles, i + 1, now)

\* The loop over CATEGORY_MAPPINGS.items() from the i-th rule on: one
\* assignment curated[category_name] = ... per rule, in the order of the
\* rules.
RECURSIVE CurateLoop(_, _, _)
CurateLoop(articles, i, now) ==
    IF i > Len(CATEGORY_MAPPINGS) THEN <<>>
    ELSE <<CurateCategory(articles, CATEGORY_MAPPINGS[i], now)>>
         \o CurateLoop(articles, i + 1, now)

\* The keys of the dict the assignments built, and the entry of a key.
Assigned(lists) == { lists[i].name : i \in DOMAIN lists }

EntryOf(lists, name) == lists[CHOOSE i \in DOMAIN lists : lists[i].name = name]

(***************************************************************************)
(* Bounds and inputs.                                                      *)
(***************************************************************************)
\* The clock value (in hours) at which a run starts.
StartClock == 100
\* Only the first MaxLiveFeed feeds of the catalog answer with anything but
\* an empty document, and only they take time to answer.
MaxLiveFeed == 2
\* The hours one fetch can take.
MaxFetchDelay == 1
\* Lengths of the article lists handed to curate_articles and
\* remove_duplicates.
MaxCurateLen == 3
MaxDedupLen == 3
\* The long lists exceed the per-category cap by up to CapExcess articles.
CapExcess == 2

Filler(n) == Rep("x", n)
Photo == <<[type |-> "image/jpeg", url |-> "http://img.example/p.jpg"]>>

\* An entry with identifier, title, link, summary, author and media, and
\* the given published time.
FullEntry(id, title, summary, published) ==
    [BlankEntry EXCEPT !.keys = {"id", "title", "link", "summary", "author",
                                 "media_content", "links", "published_parsed"},
                       !.id = id, !.title = title,
                       !.link = "http://news.example/" \o id,
                       !.summary = summary, !.author = "A. Reporter",
                       !.media_content = Photo, !.published_parsed = published]

Without(entry, ks) == [entry EXCEPT !.keys = @ \ ks]

\* Entries met by the fetcher.  Times are relative to StartClock.
GoodPortugal == FullEntry("good-pt", "Portugal Eyes New Visa Rules",
                          "<p>Lisbon weighs  new rules.</p> " \o Filler(160), StartClock - 1)
GoodJapan    == FullEntry("good-jp", "Tokyo Markets Slide As Yen Climbs - March 2024",
                          Filler(60), StartClock - 7)
GoodPlain    == FullEntry("good-plain", "Ministers Meet For Climate Talks | BBC",
                          Filler(160), StartClock - 5)
StaleFull    == FullEntry("stale", "Leaders Gather For The Annual Summit",
                          Filler(160), StartClock - max_age_hours - 1)
EdgeFull     == FullEntry("edge", "Voters Head To The Polls In Key Ballot",
                          Filler(160), StartClock - max_age_hours)
PaywallCaps  == FullEntry("paywall", "PAYWALL: Inside The Lisbon Summit Talks",
                          Filler(160), StartClock - 1)
PremiumSummary == FullEntry("premium", "Inside The Central Bank Rate Decision",
                            "Premium analysis. " \o Filler(160), StartClock - 1)
Truncated    == FullEntry("truncated", "What The New Budget Means For Savers",
                          Filler(60) \o "...", StartClock - 1)
UpdatedStale ==
    [Without(FullEntry("upd-stale", "Storm Damage Closes The Coastal Road",
                       Filler(160), 0), {"published_parsed"})
       EXCEPT !.keys = @ \cup {"updated_parsed"},
              !.updated_parsed = StartClock - max_age_hours - 2]
NoDate       == Without(FullEntry("no-date", "Court Rules On Data Privacy Appeal",
                                  Filler(160), 0), {"published_parsed"})
NoTitleNoLink == Without(FullEntry("no-title", "", Filler(160), StartClock - 1),
                         {"title", "link"})
PipeTitle    == FullEntry("pipe", "| Reuters", Filler(160), StartClock - 1)
AuthorImageOnly == Without(FullEntry("author-image", "Short", "", StartClock - 1),
                           {"published_parsed", "summary"})
DescOnly     == Without(FullEntry("desc-only", "Short", Filler(60), StartClock - 1),
                        {"published_parsed", "author", "media_content"})
BadDate      == FullEntry("bad-date", "Clocks Go Back As Leap Second Is Added",
                          Filler(160), BadTime)

\* The documents a live feed can answer with.
ResponseList ==
    << FailedFeed,
       EmptyFeed,
       [ok |-> TRUE, entries |-> <<GoodPortugal, StaleFull, EdgeFull, PaywallCaps>>],
       [ok |-> TRUE, entries |-> <<NoTitleNoLink, PipeTitle, AuthorImageOnly, DescOnly>>],
       [ok |-> TRUE, entries |-> <<GoodPlain, BadDate, GoodJapan>>],
       [ok |-> TRUE, entries |-> <<UpdatedStale, NoDate, PremiumSummary, Truncated>>] >>

\* fetch_rss_feed of the i-th feed answering with the k-th document, at
\* every time a live feed can be fetched at, worked out once.
FetchedLive ==
    AsTuple([i \in 1..MaxLiveFeed |->
      AsTuple([k \in DOMAIN ResponseList |->
        AsTuple([t \in 1..(MaxLiveFeed * MaxFetchDelay + 1) |->
          fetch_rss_feed(ResponseList[k], NEWS_SOURCES[i].source,
                         NEWS_SOURCES[i].category, StartClock + t - 1)])])])

\* The article the normaliser makes of an entry fetched at StartClock, as
\* a list of one or no article.
Normalised(entry, source, category) ==
    ProcessEntry(entry, source, category, StartClock, StartClock - max_age_hours).add

WithLink(entry, link) == [entry EXCEPT !.link = link]
Plain(entry) == Without(entry, {"author", "media_content"})
Undated(entry, updated) ==
    [Without(entry, {"published_parsed"})
       EXCEPT !.keys = @ \cup {"updated_parsed"}, !.updated_parsed = updated]

\* The articles made of a list of <<entry, source, category>>.
RECURSIVE NormalisedAll(_)
NormalisedAll(items) ==
    IF items = <<>> THEN <<>>
    ELSE Normalised(Head(items)[1], Head(items)[2], Head(items)[3])
         \o NormalisedAll(Tail(items))

\* Articles for the category matcher.
MatchPool ==
    NormalisedAll(<<
      <<GoodPortugal, "BBC News", "europe">>,
      <<FullEntry("es-pt", "Spain And PORTUGAL Sign Rail Pact", Filler(60),
                  StartClock - 2), "BBC News", "europe">>,
      <<GoodJapan, "BBC News", "international">>,
      <<FullEntry("nfl", "NFL Draft Opens With Surprise Pick", Filler(60),
                  StartClock - 3), "BBC News", "sports">>,
      <<GoodPlain, "BBC News", "technology">>,
      <<FullEntry("de", "Coalition Talks Resume After Recess",
                  "Lawmakers return to BERLIN. " \o Filler(60), StartClock - 4),
        "BBC News", "germany">>,
      <<WithLink(FullEntry("pt-2", "Porto Transit Strike Enters Second Week",
                           Filler(60), StartClock - 8),
                 "http://news.example/good-pt"), "BBC News", "europe">> >>)

\* An entry of the Reuters international feed.
Wire(entry) == <<entry, "Reuters", "international">>

\* Articles for the ranker: one sub-category, unrelated titles, scores and
\* ages on both sides of the recency window.
RankPool ==
    NormalisedAll(<<
      Wire(Plain(FullEntry("r1", "Harvest", Filler(60), StartClock - 1))),
      Wire(Without(Undated(FullEntry("r2", "Quake", Filler(160), 0), StartClock - 7),
                   {"media_content"})),
      Wire(Plain(FullEntry("r3", "Summit", Filler(160), StartClock - 5))),
      Wire(FullEntry("r4", "Ballot", Filler(160), StartClock - 7)),
      Wire(Plain(FullEntry("r5", "Drought", Filler(60), StartClock - 2))),
      Wire(Plain(FullEntry("r6", "Mission", Filler(60), StartClock - RecencyHours))) >>)

\* An entry with the title, a short summary and a recent date.
Titled(id, title) == Wire(FullEntry(id, title, Filler(60), StartClock - 1))

\* Articles for the deduplicator: titles above, at and below the
\* similarity threshold, a pair whose ratio depends on the order of the
\* two titles, and a shared url.
DedupPool ==
    NormalisedAll(<<
      Titled("d1", "Fed Raises Interest Rates Again"),
      Titled("d2", "Fed Raises Interest Rates Again Today"),
      Wire(WithLink(FullEntry("d3", "Markets Rally", Filler(60), StartClock - 1),
                    "http://news.example/d1")),
      Titled("d4", "abcdefghij"),
      Titled("d5", "ABCDEFGxyz"),
      Titled("d6", "aaba"),
      Titled("d7", "baaa"),
      Titled("d8", "Markets Rally Hard") >>)

Alphabet == "abcdefghijklmnopqrstuvwxyz"

\* A series of unrelated articles of one sub-category.
LongSeries ==
    NormalisedAll([i \in 1..(articles_per_category + CapExcess + 3) |->
                     <<Plain(FullEntry("long-" \o CharAt(Alphabet, i),
                                       Rep(CharAt(Alphabet, i), 5),
                                       Filler(IF i % 2 = 0 THEN 60 ELSE 160),
                                       StartClock - (i % 9))),
                       "France 24", "international">>])

LongLists ==
    { SubSeq(LongSeries, r + 1, r + n) :
        n \in 0..(articles_per_category + CapExcess), r \in 0..3 }

\* All lists of at most n elements of the sequence pool.
ListsOver(pool, n) ==
    UNION { [1..k -> { pool[i] : i \in DOMAIN pool }] : k \in 0..n }

CurateInputs ==
    ListsOver(MatchPool, MaxCurateLen) \cup ListsOver(RankPool, MaxCurateLen)
    \cup LongLists

DedupInputs == ListsOver(DedupPool, MaxDedupLen)

Editions == {"morning", "evening"}

(***************************************************************************)
(* State.                                                                  *)
(***************************************************************************)
VARIABLES
    pc,                \* where the run stands
    clock,             \* datetime.utcnow(), in hours
    run_start,         \* the clock when create_digest began
    all_articles,      \* the list fetch_all_articles builds
    feed_log,          \* per fetched feed: its document and what came of it
    category_articles, \* curate_articles: the matches of each category
    unique_articles,   \* curate_articles: the same after remove_duplicates
    curated,           \* curate_articles: the returned mapping
    dedup_kept,        \* remove_duplicates: positions of the kept articles
    dedup_once,        \* remove_duplicates(all_articles)
    dedup_twice,       \* remove_duplicates(dedup_once)
    digests,           \* table digests
    db_articles,       \* table articles
    user_saved_articles, \* table user_saved_articles
    requests,          \* the API requests received, each with its position
    runs               \* the background create_digest tasks

vars == <<pc, clock, run_start, all_articles, feed_log,
          category_articles, unique_articles, curated,
          dedup_kept, dedup_once, dedup_twice, digests, db_articles,
          user_saved_articles, requests, runs>>

\* What the API endpoints and their background tasks add to the state.
api == <<user_saved_articles, requests, runs>>

NoLists == [c \in Categories |-> <<>>]

Blank ==
    /\ run_start = StartClock
    /\ feed_log = <<>>
    /\ category_articles = NoLists
    /\ unique_articles = NoLists
    /\ curated = NoLists
    /\ dedup_kept = <<>>
    /\ dedup_once = <<>>
    /\ dedup_twice = <<>>
    /\ digests = <<>>
    /\ db_articles = <<>>
    /\ user_saved_articles = <<>>
    /\ requests = <<>>
    /\ runs = <<>>

Init ==
    /\ pc = "create"
    /\ clock = StartClock
    /\ all_articles = <<>>
    /\ Blank

(***************************************************************************)
(* create_digest, step by step.                                            *)
(***************************************************************************)
\* Digest(...), db.add, db.commit
CreateDigest ==
    /\ pc = "create"
    /\ \E edition \in Editions :
          digests' = Append(digests, [id |-> Len(digests) + 1, edition |-> edition,
                                      date |-> clock, is_published |-> FALSE])
    /\ run_start' = clock
    /\ all_articles' = <<>>
    /\ pc' = "fetch"
    /\ UNCHANGED <<clock, feed_log, category_articles, unique_articles, curated,
                   dedup_kept, dedup_once, dedup_twice, db_articles>>
    /\ UNCHANGED api

\* The loops of fetch_all_articles from the i-th feed on.  choices[i] names
\* the document the i-th feed answers with and the hours the fetch takes;
\* the feeds after the live ones answer at once with an empty document.
RECURSIVE FetchLoop(_, _, _, _, _)
\* all_articles.extend(articles), for the articles r of the i-th feed
\* fetched at time at.
FetchStep(i, at, response, r, choices, articles, log) ==
    FetchLoop(i + 1, at, choices, articles \o r.articles,
              Append(log, [feed |-> i, response |-> response, now |-> at,
                           raised |-> r.raised, articles |-> r.articles]))

\* The fetch of a live feed that answers at time at with the k-th document.
FetchLive(i, at, k, choices, articles, log) ==
    FetchStep(i, at, ResponseList[k], FetchedLive[i][k][at - StartClock + 1],
              choices, articles, log)

FetchLoop(i, now, choices, articles, log) ==
    IF i > Len(NEWS_SOURCES) THEN [now |-> now, articles |-> articles, log |-> log]
    ELSE IF i <= MaxLiveFeed
    THEN FetchLive(i, now + choices[i][2], choices[i][1], choices, articles, log)
    ELSE FetchStep(i, now, EmptyFeed,
                   fetch_rss_feed(EmptyFeed, NEWS_SOURCES[i].source,
                                  NEWS_SOURCES[i].category, now),
                   choices, articles, log)

\* all_articles = self.fetch_all_articles()
FetchAllArticles ==
    /\ pc = "fetch"
    /\ \E choices \in [1..MaxLiveFeed -> (DOMAIN ResponseList) \X (0..MaxFetchDelay)] :
          \E out \in {FetchLoop(1, clock, choices, <<>>, <<>>)} :
             /\ clock' = out.now
             /\ all_articles' = out.articles
             /\ feed_log' = out.log
    /\ pc' = "curate"
    /\ UNCHANGED <<run_start, category_articles, unique_articles, curated,
                   dedup_kept, dedup_once, dedup_twice, digests, db_articles>>
    /\ UNCHANGED api

\* curated_articles = self.curate_articles(all_articles)
CurateArticles ==
    /\ pc = "curate"
    /\ \E lists \in {CurateLoop(all_articles, 1, clock)} :
          /\ category_articles' =
                [c \in Assigned(lists) |-> EntryOf(lists, c).category_articles]
          /\ unique_articles' =
                [c \in Assigned(lists) |-> EntryOf(lists, c).unique_articles]
          /\ curated' = [c \in Assigned(lists) |-> EntryOf(lists, c).selected]
    /\ pc' = "save"
    /\ UNCHANGED <<clock, run_start, all_articles, feed_log,
                   dedup_kept, dedup_once, dedup_twice, digests, db_articles>>
    /\ UNCHANGED api

\* A save loop that adds the first article of each category only.
RECURSIVE RowsFromHeadOnly(_, _)
RowsFromHeadOnly(i, digest_id) ==
    IF i > Len(CATEGORY_MAPPINGS) THEN <<>>
    ELSE LET category == CATEGORY_MAPPINGS[i].name
         IN (IF curated[category] = <<>> THEN <<>>
             ELSE << [title |-> curated[category][1].title,
                      url |-> curated[category][1].url,
                      source |-> curated[category][1].source,
                      category |-> category,
                      digest_id |-> digest_id] >>)
            \o RowsFromHeadOnly(i + 1, digest_id)

\* The rows create_digest adds for a curated mapping, in the order of the
\* mapping, from the i-th category on.
RECURSIVE RowsOf(_, _, _)
RowsOf(mapping, i, digest_id) ==
    IF i > Len(CATEGORY_MAPPINGS) THEN <<>>
    ELSE [k \in 1..Len(mapping[CATEGORY_MAPPINGS[i].name]) |->
            [title |-> mapping[CATEGORY_MAPPINGS[i].name][k].title,
             url |-> mapping[CATEGORY_MAPPINGS[i].name][k].url,
             source |-> mapping[CATEGORY_MAPPINGS[i].name][k].source,
             category |-> CATEGORY_MAPPINGS[i].name,
             digest_id |-> digest_id]]
         \o RowsOf(mapping, i + 1, digest_id)

\* The rows create_digest adds, in the order of the mapping.
RowsFrom(i, digest_id) == RowsOf(curated, i, digest_id)

\* Article.url is unique: the flush of the commit fails when two rows of
\* the table would hold one url.
UrlConflict(rows) ==
    \/ \E i, j \in DOMAIN rows : i # j /\ rows[i].url = rows[j].url
    \/ \E i \in DOMAIN rows, j \in DOMAIN db_articles : rows[i].url = db_articles[j].url

\* The loop of db.add, digest.is_published = True, db.commit.  A failed
\* commit raises out of create_digest and nothing of the session is stored.
SaveArticles ==
    /\ pc = "save"
    /\ LET digest_id == Len(digests)
           rows == RowsFrom(1, digest_id)
       IN IF UrlConflict(rows)
          THEN /\ pc' = "failed"
               /\ UNCHANGED <<digests, db_articles>>
          ELSE /\ db_articles' = db_articles \o rows
               /\ digests' = [digests EXCEPT ![digest_id].is_published = TRUE]
               /\ pc' = "done"
    /\ UNCHANGED <<clock, run_start, all_articles, feed_log,
                   category_articles, unique_articles, curated,
                   dedup_kept, dedup_once, dedup_twice>>
    /\ UNCHANGED api

Next == CreateDigest \/ FetchAllArticles \/ CurateArticles \/ SaveArticles

Spec == Init /\ [][Next]_vars

(***************************************************************************)
(* curate_articles on its own, applied to a given list at a given time.    *)
(***************************************************************************)
InitCurate ==
    /\ pc = "curate"
    /\ clock \in {StartClock, StartClock + 1}
    /\ all_articles \in CurateInputs
    /\ Blank

NextCurate == CurateArticles

SpecCurate == InitCurate /\ [][NextCurate]_vars

(***************************************************************************)
(* remove_duplicates on its own, applied to a list and to its own output.  *)
(***************************************************************************)
InitDedup ==
    /\ pc = "dedup"
    /\ clock = StartClock
    /\ all_articles \in DedupInputs
    /\ Blank

RemoveDuplicates ==
    /\ pc = "dedup"
    /\ dedup_kept' = KeptPositions(all_articles)
    /\ dedup_once' = remove_duplicates(all_articles)
    /\ pc' = "dedup again"
    /\ UNCHANGED <<clock, run_start, all_articles, feed_log,
                   category_articles, unique_articles, curated, dedup_twice,
                   digests, db_articles>>
    /\ UNCHANGED api

RemoveDuplicatesAgain ==
    /\ pc = "dedup again"
    /\ dedup_twice' = remove_duplicates(dedup_once)
    /\ pc' = "deduped"
    /\ UNCHANGED <<clock, run_start, all_articles, feed_log,
                   category_articles, unique_articles, curated, dedup_kept,
                   dedup_once, digests, db_articles>>
    /\ UNCHANGED api

NextDedup == RemoveDuplicates \/ RemoveDuplicatesAgain

SpecDedup == InitDedup /\ [][NextDedup]_vars


(***************************************************************************)
(* Properties.                                                             *)
(***************************************************************************)
\* curate_articles has returned.
Curated == pc \in {"save", "done", "failed"}
\* remove_duplicates has returned.
Deduped == pc \in {"dedup again", "deduped"}

\* text holds kw in any letter case.
HasKeyword(text, kw) ==
    LET folded == Lower(text)
    IN \E i \in 1..(Len(text) - Len(kw) + 1) :
          SubSeq(folded, i, i + Len(kw) - 1) = kw

\* C1: whatever list curate_articles is given, no category's output list
\* is longer than articles_per_category (15).
C1_CapRespected ==
    Curated => \A c \in Categories : Len(curated[c]) <= articles_per_category

\* A category with more than 15 candidates after deduplication, cut to 15.
C1_Witness ==
    /\ Curated
    /\ \E c \in Categories :
          /\ Len(unique_articles[c]) > articles_per_category
          /\ Len(curated[c]) = articles_per_category

\* C2: no category's output list of curate_articles holds two articles
\* with the same url.
C2_NoSharedUrl ==
    Curated =>
       \A c \in Categories :
          \A i, j \in DOMAIN curated[c] :
             i # j => curated[c][i].url # curated[c][j].url

\* Two candidates of one category share a url, their titles are not
\* similar, and one of them is in the output.
C2_Witness ==
    /\ Curated
    /\ \E c \in Categories :
          \E i, j \in DOMAIN category_articles[c] :
             /\ i < j
             /\ category_articles[c][i].url = category_articles[c][j].url
             /\ category_articles[c][i].title # category_articles[c][j].title
             /\ \E k \in DOMAIN curated[c] :
                   curated[c][k].url = category_articles[c][i].url

\* The positions of the input of remove_duplicates that are in its output.
KeptSet == { dedup_kept[k] : k \in DOMAIN dedup_kept }

\* SequenceMatcher(None, later title, earlier title).ratio() for the
\* articles at positions i < j of the input, as a pair <<n, d>>.
TitleRatio(i, j) ==
    SequenceMatcherRatio(Lower(all_articles[j].title), Lower(all_articles[i].title))

\* C3 as stated: of two articles whose lower-cased titles have a ratio of at
\* least 0.7, the earlier is in the output of remove_duplicates and the
\* later is not.
C3_Original ==
    Deduped =>
       \A i, j \in DOMAIN all_articles :
          (i < j /\ 10 * TitleRatio(i, j)[1] >= 7 * TitleRatio(i, j)[2])
             => (i \in KeptSet /\ j \notin KeptSet)

\* C3 amended: when the ratio of the later title to the earlier one is
\* strictly above 0.7 and the earlier article is in the output, the later
\* one is not; the first article of the input is always in the output.
C3_Amended ==
    Deduped =>
       /\ \A i, j \in DOMAIN all_articles :
             (i < j /\ 10 * TitleRatio(i, j)[1] > 7 * TitleRatio(i, j)[2]
                    /\ i \in KeptSet)
                => j \notin KeptSet
       /\ all_articles # <<>> => 1 \in KeptSet

\* A later article with another url and a title more than 0.7 similar to
\* that of a kept earlier one has been dropped.
C3_Witness ==
    /\ Deduped
    /\ \E i, j \in DOMAIN all_articles :
          /\ i < j
          /\ all_articles[i].url # all_articles[j].url
          /\ 10 * TitleRatio(i, j)[1] > 7 * TitleRatio(i, j)[2]
          /\ i \in KeptSet
          /\ j \notin KeptSet

\* C4: remove_duplicates applied to its own output returns that output.
C4_Idempotent == pc = "deduped" => dedup_twice = dedup_once

\* A list with two titles whose ratio is above the threshold in one order
\* only, of which remove_duplicates dropped something and kept two or more.
C4_Witness ==
    /\ pc = "deduped"
    /\ Len(dedup_once) < Len(all_articles)
    /\ Len(dedup_once) >= 2
    /\ \E i, j \in DOMAIN all_articles :
          /\ i < j
          /\ 10 * TitleRatio(i, j)[1] > 7 * TitleRatio(i, j)[2]
          /\ LET back == SequenceMatcherRatio(Lower(all_articles[i].title),
                                              Lower(all_articles[j].title))
             IN 10 * back[1] <= 7 * back[2]


\* The entries of a fetched document that fetch_rss_feed looks at.
EntriesOf(f) ==
    IF f.response.ok
    THEN SubSeq(f.response.entries, 1, Min(EntriesPerFeed, Len(f.response.entries)))
    ELSE <<>>

\* The identifier an entry's article carries.
EntryId(e) == Get(e, "id", Get(e, "link", ""))

\* The articles of the list that were made of the entry.
MadeOf(list, e) == { k \in DOMAIN list : list[k].guid = EntryId(e) }

\* C5 as stated: every article in the output of a run has a non-empty url,
\* a non-empty cleaned title and a quality score in [0, 1].
C5_Original ==
    Curated =>
       \A c \in Categories :
          \A k \in DOMAIN curated[c] :
             /\ curated[c][k].url # ""
             /\ curated[c][k].title # ""
             /\ ~FLess(curated[c][k].quality_score, FZero)
             /\ ~FLess(Float1_0, curated[c][k].quality_score)

\* The resolved timestamp of an entry processed at time now: published,
\* else updated, else now.
ResolvedTime(e, now) ==
    IF HasAttr(e, "published_parsed") THEN e.published_parsed
    ELSE IF HasAttr(e, "updated_parsed") THEN e.updated_parsed
    ELSE now

\* C6: an entry whose resolved timestamp is more than max_age_hours (48)
\* before the start of the run is in the output of no fetch_rss_feed call
\* of the run, whenever its feed is fetched.
C6_StaleExcluded ==
    \A n \in DOMAIN feed_log :
       \A k \in DOMAIN EntriesOf(feed_log[n]) :
          LET e == EntriesOf(feed_log[n])[k]
          IN ResolvedTime(e, feed_log[n].now) < run_start - max_age_hours
                => /\ MadeOf(feed_log[n].articles, e) = {}
                   /\ MadeOf(all_articles, e) = {}

\* A feed fetched after the start of the run held an entry older than the
\* window with description, author, image and title, and that feed
\* contributed other articles.
C6_Witness ==
    \E n \in DOMAIN feed_log :
       /\ feed_log[n].now > run_start
       /\ feed_log[n].articles # <<>>
       /\ \E k \in DOMAIN EntriesOf(feed_log[n]) :
             LET e == EntriesOf(feed_log[n])[k]
             IN /\ ResolvedTime(e, feed_log[n].now) < run_start - max_age_hours
                /\ ResolvedTime(e, feed_log[n].now) >= 0
                /\ Len(Get(e, "summary", "")) > 150
                /\ Truthy(e, "author")
                /\ TruthyList(e, "media_content")
                /\ Len(Get(e, "title", "")) > 20

\* The entry's title or summary holds a keyword of the paywall list, in
\* any letter case.
HasPaywallKeyword(e) ==
    \E kw \in PaywallIndicators :
       \/ HasKeyword(Get(e, "title", ""), kw)
       \/ HasKeyword(Get(e, "summary", ""), kw)

\* The entries of the documents that hold such a keyword.
PaywallKeyworded ==
    { e \in UNION { { ResponseList[k].entries[n] : n \in DOMAIN ResponseList[k].entries } :
                      k \in DOMAIN ResponseList } :
        HasPaywallKeyword(e) }

\* C7: an entry whose title or summary holds "paywall", or another
\* keyword of the paywall list, in any letter case is in the output of no
\* fetch_rss_feed call.
C7_PaywallExcluded ==
    \A n \in DOMAIN feed_log :
       \A k \in DOMAIN EntriesOf(feed_log[n]) :
          LET e == EntriesOf(feed_log[n])[k]
          IN e \in PaywallKeyworded
                => /\ MadeOf(feed_log[n].articles, e) = {}
                   /\ MadeOf(all_articles, e) = {}

\* A feed held a recent entry with "PAYWALL" in capitals in its title and
\* every quality signal, and contributed other articles.
C7_Witness ==
    \E n \in DOMAIN feed_log :
       /\ feed_log[n].articles # <<>>
       /\ \E k \in DOMAIN EntriesOf(feed_log[n]) :
             LET e == EntriesOf(feed_log[n])[k]
             IN /\ HasKeyword(Get(e, "title", ""), "paywall")
                /\ ~Contains(Get(e, "title", ""), "paywall")
                /\ ResolvedTime(e, feed_log[n].now) >= feed_log[n].now - 1
                /\ Len(Get(e, "summary", "")) > 150
                /\ Truthy(e, "author")

\* C8 as stated: a feed whose retrieval or processing raised contributes
\* no article, and the run goes on to visit every configured feed.
C8_Original ==
    /\ \A n \in DOMAIN feed_log :
          feed_log[n].raised => feed_log[n].articles = <<>>
    /\ Curated => Len(feed_log) = Len(NEWS_SOURCES)


\* The keywords of a category rule; a rule without keywords accepts every
\* article with an eligible label.
RuleKeywords(name) ==
    CASE name = "Portugal" ->
           {"portugal", "portuguese", "lisbon", "porto", "madeira", "azores"}
      [] name = "Spain" ->
           {"spain", "spanish", "madrid", "barcelona", "valencia", "seville"}
      [] name = "Germany" ->
           {"germany", "german", "berlin", "munich", "frankfurt", "hamburg", "deutsch"}
      [] name = "Japan" ->
           {"japan", "japanese", "tokyo", "osaka", "kyoto", "nippon"}
      [] name = "Apple & Productivity AI" ->
           {"apple", "mac", "iphone", "ipad", "ios", "macos", "app store",
            "productivity", "notion", "ai tool", "chatgpt", "claude", "copilot",
            "automation", "workflow", "artificial intelligence"}
      [] name = "Soccer" ->
           {"soccer", "football", "premier league", "la liga", "bundesliga",
            "champions league", "world cup", "uefa", "fifa"}
      [] OTHER -> {}

\* Title and description of every article of all_articles, in lower case.
FoldedTexts ==
    AsTuple([k \in DOMAIN all_articles |->
               Lower(all_articles[k].title \o " " \o all_articles[k].description)])

\* The positions of all_articles the rule takes: an eligible label and,
\* where the rule has keywords, one of them in title or description.
RuleTakes(rule, folded) ==
    SelectSeq([k \in DOMAIN all_articles |-> k],
              LAMBDA k : /\ all_articles[k].category \in rule.search
                         /\ \/ RuleKeywords(rule.name) = {}
                            \/ \E kw \in RuleKeywords(rule.name) :
                                  \E i \in 1..(Len(folded[k]) - Len(kw) + 1) :
                                     SubSeq(folded[k], i, i + Len(kw) - 1) = kw)

CompositeScore(a, now) ==
    FAdd(FMul(Float0_7, a.quality_score),
         FMul(Float0_3,
              IF now - a.published_date < RecencyHours THEN Float1_0 ELSE Float0_3))

\* The composite scores of a category's output list.
OutputScores(c) ==
    AsTuple([k \in DOMAIN curated[c] |-> CompositeScore(curated[c][k], clock)])

\* The position of an article in the deduplicated list of its category.
UniquePosition(c, a) ==
    CHOOSE k \in DOMAIN unique_articles[c] : unique_articles[c][k] = a

\* C10: each category's output list is in non-increasing order of the
\* composite score, and two articles of equal score are in the order they
\* have in the deduplicated list.
C10_SortedStable ==
    Curated =>
       \A c \in Categories :
          LET score == OutputScores(c)
          IN \A i, j \in DOMAIN curated[c] :
                i < j =>
                   /\ ~FLess(score[i], score[j])
                   /\ ~FLess(score[j], score[i]) =>
                         UniquePosition(c, curated[c][i]) < UniquePosition(c, curated[c][j])

\* An output list with two articles of equal score and different quality,
\* and an article that the sort moved ahead of one that preceded it.
C10_Witness ==
    /\ Curated
    /\ \E c \in Categories :
          LET score == OutputScores(c)
          IN /\ \E i, j \in DOMAIN curated[c] :
                   /\ i < j
                   /\ ~FLess(score[i], score[j]) /\ ~FLess(score[j], score[i])
                   /\ curated[c][i].quality_score # curated[c][j].quality_score
             /\ \E i, j \in DOMAIN curated[c] :
                   /\ i < j
                   /\ FLess(score[j], score[i])
                   /\ UniquePosition(c, curated[c][j]) < UniquePosition(c, curated[c][i])

(***************************************************************************)
(* The digest read endpoints, as functions of the committed tables.        *)
(***************************************************************************)
\* db.query(Article).filter(Article.digest_id == digest.id).all()
ArticlesOf(digest_id) ==
    SelectSeq(db_articles, LAMBDA a : a.digest_id = digest_id)

\* The query of get_latest_digest: the published digests of the edition,
\* of which .order_by(Digest.date.desc()).first() takes one of latest date.
PublishedOf(edition) ==
    {i \in DOMAIN digests : digests[i].edition = edition /\ digests[i].is_published}

LatestOf(edition) ==
    {i \in PublishedOf(edition) :
        \A j \in PublishedOf(edition) : digests[j].date <= digests[i].date}

NotFound == [status |-> 404]

Found(i) == [status |-> 200, digest |-> digests[i], articles |-> ArticlesOf(digests[i].id)]

\* GET /digests/{digest_id}
get_digest(digest_id) ==
    IF \E i \in DOMAIN digests : digests[i].id = digest_id /\ digests[i].is_published
    THEN Found(CHOOSE i \in DOMAIN digests : digests[i].id = digest_id)
    ELSE NotFound

\* GET /digests/latest/{edition}: the responses the query can give.
get_latest_digest(edition) ==
    IF LatestOf(edition) = {} THEN {NotFound}
    ELSE {Found(i) : i \in LatestOf(edition)}

\* GET /digests/: the published digests, each with its article count.
get_digests ==
    {[id |-> digests[i].id, article_count |-> Len(ArticlesOf(digests[i].id))] :
        i \in {j \in DOMAIN digests : digests[j].is_published}}

\* The (category, article) pairs of the mapping curate_articles returned.
MappingPairs ==
    {<<c, k>> : c \in Categories, k \in 1..articles_per_category} \cap
    {p \in Categories \X (1..articles_per_category) : p[2] <= Len(curated[p[1]])}

\* The rows are the pairs of the mapping, one row each.
HoldsMapping(rows, digest_id) ==
    /\ Len(rows) = Cardinality(MappingPairs)
    /\ \A p \in MappingPairs :
          \E r \in DOMAIN rows :
             /\ rows[r].category = p[1]
             /\ rows[r].url = curated[p[1]][p[2]].url
             /\ rows[r].title = curated[p[1]][p[2]].title
             /\ rows[r].digest_id = digest_id

\* C11: a digest whose committed is_published flag is true has the Article
\* rows of every category of its curated mapping committed, and what
\* get_digests, get_latest_digest and get_digest return for it is the whole
\* of the mapping, never a part.
C11_PublishedComplete ==
    /\ \A i \in DOMAIN digests :
          digests[i].is_published => HoldsMapping(ArticlesOf(digests[i].id), digests[i].id)
    /\ \A i \in DOMAIN digests :
          get_digest(digests[i].id).status = 200 =>
             HoldsMapping(get_digest(digests[i].id).articles, digests[i].id)
    /\ \A edition \in Editions : \A answer \in get_latest_digest(edition) :
          answer.status = 200 => HoldsMapping(answer.articles, answer.digest.id)
    /\ \A listed \in get_digests : listed.article_count = Cardinality(MappingPairs)

\* A published digest of two or more articles, served by all three
\* endpoints.
C11_Witness ==
    /\ \E i \in DOMAIN digests :
          /\ digests[i].is_published
          /\ get_digest(digests[i].id).status = 200
          /\ \E answer \in get_latest_digest(digests[i].edition) : answer.status = 200
          /\ \E listed \in get_digests : listed.id = digests[i].id
          /\ Len(ArticlesOf(digests[i].id)) >= 2

(***************************************************************************)
(* create_digest invoked again, over the documents the feeds gave before.  *)
(***************************************************************************)
MaxRuns == 2

\* POST /digests/create/{edition} after a run has ended: the background
\* task begins create_digest, which adds and commits a new digest.
create_digest_manual ==
    /\ pc \in {"done", "failed"}
    /\ Len(digests) < MaxRuns
    /\ \E edition \in Editions :
          digests' = Append(digests, [id |-> Len(digests) + 1, edition |-> edition,
                                      date |-> clock, is_published |-> FALSE])
    /\ run_start' = clock
    /\ all_articles' = <<>>
    /\ pc' = "refetch"
    /\ UNCHANGED <<clock, feed_log, category_articles, unique_articles, curated,
                   dedup_kept, dedup_once, dedup_twice, db_articles>>
    /\ UNCHANGED api

\* The document the i-th feed gave to the run before.
SameResponse(i) ==
    CHOOSE k \in DOMAIN ResponseList : ResponseList[k] = feed_log[i].response

\* fetch_all_articles of the later run: every feed answers at once, with
\* the document it answered with before.
FetchAllArticlesAgain ==
    /\ pc = "refetch"
    /\ \E out \in {FetchLoop(1, clock, [i \in 1..MaxLiveFeed |-> <<SameResponse(i), 0>>],
                             <<>>, <<>>)} :
          /\ clock' = out.now
          /\ all_articles' = out.articles
          /\ feed_log' = out.log
    /\ pc' = "curate"
    /\ UNCHANGED <<run_start, category_articles, unique_articles, curated,
                   dedup_kept, dedup_once, dedup_twice, digests, db_articles>>
    /\ UNCHANGED api

NextRerun == Next \/ create_digest_manual \/ FetchAllArticlesAgain

SpecRerun == Init /\ [][NextRerun]_vars

\* The stored lists of a digest: per category, the urls in stored order.
StoredList(digest_id, c) ==
    SelectSeq(ArticlesOf(digest_id), LAMBDA a : a.category = c)

StoredUrls(digest_id) ==
    [c \in Categories |->
        [k \in 1..Len(StoredList(digest_id, c)) |-> StoredList(digest_id, c)[k].url]]

\* C12: after a create_digest run has completed, a second run over the
\* same feed contents completes too, ends with its digest published, and
\* stores the same per-category lists as the first.
C12_Original ==
    (/\ Len(digests) = 2
     /\ pc \in {"done", "failed"}
     /\ digests[1].is_published
     /\ clock = digests[1].date)
       => /\ pc = "done"
          /\ digests[2].is_published
          /\ StoredUrls(2) = StoredUrls(1)

\* What the loop body of fetch_rss_feed makes of the k-th entry of a
\* fetched feed, taken on its own.
AloneOf(f, k) ==
    ProcessEntry(EntriesOf(f)[k], NEWS_SOURCES[f.feed].source,
                 NEWS_SOURCES[f.feed].category, f.now, f.now - max_age_hours)

\* C13 as stated: failures are per-entry, so every entry that passes the
\* filters on its own is in the output of fetch_all_articles, whatever
\* became of the other entries of its feed and of the other feeds.
C13_Original ==
    \A n \in DOMAIN feed_log :
       \A k \in DOMAIN EntriesOf(feed_log[n]) :
          AloneOf(feed_log[n], k).add # <<>> =>
             \E j \in DOMAIN all_articles :
                all_articles[j] = AloneOf(feed_log[n], k).add[1]

\* C14: the mapping curate_articles returns has exactly the categories of
\* CATEGORY_MAPPINGS as keys, and a category that no article matched maps
\* to the empty list.
C14_AllCategories ==
    Curated =>
       /\ DOMAIN curated = Categories
       /\ \A i \in DOMAIN CATEGORY_MAPPINGS :
             (\A k \in DOMAIN all_articles :
                 ~(/\ all_articles[k].category \in CATEGORY_MAPPINGS[i].search
                   /\ matches_category_filter(all_articles[k], CATEGORY_MAPPINGS[i].name)))
                => curated[CATEGORY_MAPPINGS[i].name] = <<>>

\* A returned mapping with a category that has articles and a category
\* that no article of the input matched.
C14_Witness ==
    /\ Curated
    /\ all_articles # <<>>
    /\ \E c \in Categories : curated[c] # <<>>
    /\ \E i \in DOMAIN CATEGORY_MAPPINGS :
          /\ curated[CATEGORY_MAPPINGS[i].name] = <<>>
          /\ \A k \in DOMAIN all_articles :
                all_articles[k].category \notin CATEGORY_MAPPINGS[i].search

\* The score of an entry in exact tenths: the sum of the contributions of
\* its signals, capped at ten.
Tenths(e) ==
    Min(10,
        (IF Len(extract_best_description(e)) > min_description_length THEN 3 ELSE 0)
      + (IF Len(extract_best_description(e)) > 150 THEN 2 ELSE 0)
      + (IF extract_author(e) # "" THEN 2 ELSE 0)
      + (IF extract_image(e) # "" THEN 1 ELSE 0)
      + (IF HasAttr(e, "published_parsed") THEN 1 ELSE 0)
      + (IF Len(Get(e, "title", "")) > 20 /\ Len(Get(e, "title", "")) < 200
         THEN 1 ELSE 0))

\* The entry comes to the quality gate: its date is readable and recent and
\* it does not look paywalled.
ReachesGate(e, now) ==
    /\ ResolvedTime(e, now) # BadTime
    /\ ~IsStale(ResolvedTime(e, now), now - max_age_hours)
    /\ ~is_likely_paywalled(e)

\* C15 as stated: an entry that comes to the quality gate is emitted if and
\* only if its score is strictly greater than 3 tenths; every combination
\* of signals that sums to 3 tenths or less is rejected.
C15_Original ==
    \A n \in DOMAIN feed_log :
       \A k \in DOMAIN EntriesOf(feed_log[n]) :
          ReachesGate(EntriesOf(feed_log[n])[k], feed_log[n].now) =>
             (AloneOf(feed_log[n], k).add # <<>> <=> Tenths(EntriesOf(feed_log[n])[k]) > 3)

\* C16: the output of remove_duplicates is a subsequence of its input, the
\* first article of the input is always in it, and every article left out
\* has an earlier article in the output with the same url or with a title
\* whose similarity to its own is above the threshold.
C16_DropsOnlyDuplicates ==
    Deduped =>
       /\ Len(dedup_once) = Len(dedup_kept)
       /\ \A k \in DOMAIN dedup_kept :
             /\ dedup_kept[k] \in DOMAIN all_articles
             /\ dedup_once[k] = all_articles[dedup_kept[k]]
             /\ k > 1 => dedup_kept[k - 1] < dedup_kept[k]
       /\ all_articles # <<>> => (dedup_once # <<>> /\ dedup_once[1] = all_articles[1])
       /\ \A j \in DOMAIN all_articles :
             j \notin KeptSet =>
                \E i \in KeptSet :
                   /\ i < j
                   /\ \/ all_articles[i].url = all_articles[j].url
                      \/ 10 * TitleRatio(i, j)[1] > 7 * TitleRatio(i, j)[2]

\* An input of which remove_duplicates kept two or more articles and left
\* out one for its url alone, the title being unlike every earlier one.
C16_Witness ==
    /\ Deduped
    /\ Len(dedup_once) >= 2
    /\ \E j \in DOMAIN all_articles :
          /\ j \notin KeptSet
          /\ \E i \in KeptSet : i < j /\ all_articles[i].url = all_articles[j].url
          /\ \A i \in KeptSet :
                i < j => 10 * TitleRatio(i, j)[1] <= 7 * TitleRatio(i, j)[2]

\* The keyword filter that the annotation of a category in CATEGORY_MAPPINGS
\* announces, as matches_category_filter spells it.
AnnouncedFilter(article, c) ==
    CASE c = "US Sports" ->
           \/ matches_category_filter(article, "US Football")
           \/ matches_category_filter(article, "US Basketball")
           \/ matches_category_filter(article, "US Baseball")
      [] c = "Expat/Immigration" -> matches_category_filter(article, "US to Europe Expat")
      [] OTHER -> matches_category_filter(article, c)

\* C17 as stated: every article selected into Portugal, Spain, Germany,
\* Japan, US Sports or Expat/Immigration satisfies the keyword filter of
\* that category.
C17_Original ==
    Curated =>
       \A c \in {"Portugal", "Spain", "Germany", "Japan", "US Sports",
                 "Expat/Immigration"} :
          \A k \in DOMAIN curated[c] : AnnouncedFilter(curated[c][k], c)

\* C18 as stated: whatever the curated mapping, the same url in several
\* categories included, create_digest stores one Article row per
\* (category, article) pair and ends with its digest published; no run
\* ends with its digest unpublished.
C18_Original ==
    /\ pc # "failed"
    /\ pc = "done" =>
          /\ digests[Len(digests)].is_published
          /\ HoldsMapping(ArticlesOf(Len(digests)), Len(digests))

(***************************************************************************)
(* The Read Later endpoints.  Each request is served by a thread of its    *)
(* own with a session of its own; a query sees the committed rows, and     *)
(* nothing orders the query of one request and the write of another.       *)
(***************************************************************************)
MaxUsers == 2
MaxRequests == 3

Users == 1..MaxUsers

\* The articles a published digest left in the table.
StoredArticles ==
    << [title |-> "Ministers Meet For Climate Talks", url |-> "http://news.example/good-plain",
        source |-> "BBC News", category |-> "Technology", digest_id |-> 1] >>

InitSave ==
    /\ pc = "api"
    /\ clock = StartClock
    /\ all_articles = <<>>
    /\ run_start = StartClock
    /\ feed_log = <<>>
    /\ category_articles = NoLists
    /\ unique_articles = NoLists
    /\ curated = NoLists
    /\ dedup_kept = <<>>
    /\ dedup_once = <<>>
    /\ dedup_twice = <<>>
    /\ digests = << [id |-> 1, edition |-> "morning", date |-> StartClock,
                     is_published |-> TRUE] >>
    /\ db_articles = StoredArticles
    /\ user_saved_articles = <<>>
    /\ requests = <<>>
    /\ runs = <<>>

\* db.query(user_saved_articles).filter(user_id, article_id).first()
ExistingRow(user_id, article_id) ==
    \E k \in DOMAIN user_saved_articles :
       /\ user_saved_articles[k].user_id = user_id
       /\ user_saved_articles[k].article_id = article_id

Received(op, user_id, article_id, existing, at, status) ==
    [op |-> op, user_id |-> user_id, article_id |-> article_id,
     existing |-> existing, at |-> at, status |-> status]

\* save_article up to the test of existing: 404 for an unknown article, 400
\* 'Article already saved' for a pair that has a row, else on to the insert.
SaveArticleCheck ==
    /\ pc = "api"
    /\ Len(requests) < MaxRequests
    /\ \E user_id \in Users, article_id \in 1..(Len(db_articles) + 1) :
          requests' = Append(requests,
             IF article_id \notin DOMAIN db_articles
             THEN Received("save_article", user_id, article_id, FALSE, "done", 404)
             ELSE IF ExistingRow(user_id, article_id)
             THEN Received("save_article", user_id, article_id, TRUE, "done", 400)
             ELSE Received("save_article", user_id, article_id, FALSE, "write", 0))
    /\ UNCHANGED <<pc, clock, run_start, all_articles, feed_log, category_articles,
                   unique_articles, curated, dedup_kept, dedup_once, dedup_twice,
                   digests, db_articles, user_saved_articles, runs>>

\* db.execute(user_saved_articles.insert()...), db.commit()
SaveArticleInsert ==
    /\ pc = "api"
    /\ \E r \in DOMAIN requests :
          /\ requests[r].op = "save_article"
          /\ requests[r].at = "write"
          /\ user_saved_articles' =
                Append(user_saved_articles,
                       [user_id |-> requests[r].user_id,
                        article_id |-> requests[r].article_id])
          /\ requests' = [requests EXCEPT ![r].at = "done", ![r].status = 200]
    /\ UNCHANGED <<pc, clock, run_start, all_articles, feed_log, category_articles,
                   unique_articles, curated, dedup_kept, dedup_once, dedup_twice,
                   digests, db_articles, runs>>

\* unsave_article up to the test of existing: 404 for a pair without a row.
UnsaveArticleCheck ==
    /\ pc = "api"
    /\ Len(requests) < MaxRequests
    /\ \E user_id \in Users, article_id \in 1..(Len(db_articles) + 1) :
          requests' = Append(requests,
             IF ExistingRow(user_id, article_id)
             THEN Received("unsave_article", user_id, article_id, TRUE, "write", 0)
             ELSE Received("unsave_article", user_id, article_id, FALSE, "done", 404))
    /\ UNCHANGED <<pc, clock, run_start, all_articles, feed_log, category_articles,
                   unique_articles, curated, dedup_kept, dedup_once, dedup_twice,
                   digests, db_articles, user_saved_articles, runs>>

\* db.execute(user_saved_articles.delete().where(...)), db.commit()
UnsaveArticleDelete ==
    /\ pc = "api"
    /\ \E r \in DOMAIN requests :
          /\ requests[r].op = "unsave_article"
          /\ requests[r].at = "write"
          /\ user_saved_articles' =
                SelectSeq(user_saved_articles,
                          LAMBDA row : ~(/\ row.user_id = requests[r].user_id
                                         /\ row.article_id = requests[r].article_id))
          /\ requests' = [requests EXCEPT ![r].at = "done", ![r].status = 200]
    /\ UNCHANGED <<pc, clock, run_start, all_articles, feed_log, category_articles,
                   unique_articles, curated, dedup_kept, dedup_once, dedup_twice,
                   digests, db_articles, runs>>

NextSave ==
    SaveArticleCheck \/ SaveArticleInsert \/ UnsaveArticleCheck \/ UnsaveArticleDelete

SpecSave == InitSave /\ [][NextSave]_vars

\* C19 as stated: under any interleaving of save_article and unsave_article
\* requests the table user_saved_articles holds at most one row per
\* (user_id, article_id) pair, and a save_article answered 'Article already
\* saved' is one whose pair had a row when it looked.
C19_Original ==
    /\ \A j, k \in DOMAIN user_saved_articles :
          (/\ user_saved_articles[j].user_id = user_saved_articles[k].user_id
           /\ user_saved_articles[j].article_id = user_saved_articles[k].article_id)
             => j = k
    /\ \A r \in DOMAIN requests :
          (requests[r].op = "save_article" /\ requests[r].status = 400)
             => requests[r].existing

(***************************************************************************)
(* get_latest_digest and the create_digest runs it starts as background    *)
(* tasks.  The feeds answer at once; a run is the commit of its digest     *)
(* row followed by the rest of create_digest.                              *)
(***************************************************************************)
\* The mapping curate_articles returns to a run whose feeds answer as chosen.
MappingOf(lists) == [c \in Assigned(lists) |-> EntryOf(lists, c).selected]

OutcomeOf(choices) ==
    MappingOf(CurateLoop(FetchLoop(1, StartClock, choices, <<>>, <<>>).articles,
                         1, StartClock))

\* The get_latest_digest requests of a behaviour.
MaxLatest == 2

InitLatest ==
    /\ pc = "api"
    /\ clock = StartClock
    /\ all_articles = <<>>
    /\ Blank

Asked(edition, status) ==
    [op |-> "get_latest_digest", edition |-> edition, status |-> status]

\* GET /digests/latest/{edition}: 400 for an unknown edition; with no
\* published digest of the edition, a create_digest task is added and the
\* answer is 404; else the latest published digest is returned.
GetLatestDigest ==
    /\ pc = "api"
    /\ Len(requests) < MaxLatest
    /\ \E edition \in Editions \cup {"weekly"} :
          IF edition \notin Editions
          THEN /\ requests' = Append(requests, Asked(edition, 400))
               /\ runs' = runs
          ELSE IF LatestOf(edition) = {}
          THEN /\ runs' = Append(runs, [edition |-> edition, at |-> "queued",
                                        digest_id |-> 0])
               /\ requests' = Append(requests, Asked(edition, 404))
          ELSE /\ requests' = Append(requests, Asked(edition, 200))
               /\ runs' = runs
    /\ UNCHANGED <<pc, clock, run_start, all_articles, feed_log, category_articles,
                   unique_articles, curated, dedup_kept, dedup_once, dedup_twice,
                   digests, db_articles, user_saved_articles>>

\* The task begins: Digest(...), db.add, db.commit
RunCreateDigest ==
    /\ pc = "api"
    /\ \E i \in DOMAIN runs :
          /\ runs[i].at = "queued"
          /\ digests' = Append(digests, [id |-> Len(digests) + 1,
                                         edition |-> runs[i].edition,
                                         date |-> clock, is_published |-> FALSE])
          /\ runs' = [runs EXCEPT ![i].at = "created", ![i].digest_id = Len(digests) + 1]
    /\ UNCHANGED <<pc, clock, run_start, all_articles, feed_log, category_articles,
                   unique_articles, curated, dedup_kept, dedup_once, dedup_twice,
                   db_articles, user_saved_articles, requests>>

\* The rest of the task: fetch_all_articles, curate_articles, the loop of
\* db.add, digest.is_published = True, db.commit.
RunFinish ==
    /\ pc = "api"
    /\ \E i \in DOMAIN runs :
          /\ runs[i].at = "created"
          /\ \E choices \in [1..MaxLiveFeed -> (DOMAIN ResponseList) \X {0}] :
                \E rows \in {RowsOf(OutcomeOf(choices), 1, runs[i].digest_id)} :
                   IF UrlConflict(rows)
                   THEN /\ runs' = [runs EXCEPT ![i].at = "failed"]
                        /\ UNCHANGED <<digests, db_articles>>
                   ELSE /\ db_articles' = db_articles \o rows
                        /\ digests' = [digests EXCEPT
                                          ![runs[i].digest_id].is_published = TRUE]
                        /\ runs' = [runs EXCEPT ![i].at = "published"]
    /\ UNCHANGED <<pc, clock, run_start, all_articles, feed_log, category_articles,
                   unique_articles, curated, dedup_kept, dedup_once, dedup_twice,
                   user_saved_articles, requests>>

NextLatest == GetLatestDigest \/ RunCreateDigest \/ RunFinish

SpecLatest == InitLatest /\ [][NextLatest]_vars

=============================================================================
